---- MODULE Spec2Model ----
(***************************************************************************)
(* Model of the document-search backend (Express + Dropbox + Elastic-      *)
(* search): the token cache of getDropboxClient, initializeIndex, the      *)
(* sync run indexDropboxFiles driven by the app.listen callback, and the   *)
(* GET /api/search handler.                                                *)
(*                                                                         *)
(* Strings are sequences of character codes (ASCII), so that endsWith,     *)
(* String.replace and the base64 encoding are computed as the code         *)
(* computes them.                                                          *)
(***************************************************************************)
EXTENDS Integers, Sequences, FiniteSets, TLC

\* ------------------------------------------------------------------ bounds
MaxFiles == 3
MaxTicks == 2
MaxRuns == 2
MaxRequests == 1
TickMs == 1000

\* ------------------------------------------------------- program constants
MsPerSecond == 1000

NULL == [null |-> TRUE]

\* ------------------------------------------------------------ string data
\* ".txt"
DotTxt == <<46, 116, 120, 116>>
\* "www.dropbox.com"
WwwDropbox == <<119, 119, 119, 46, 100, 114, 111, 112, 98, 111, 120, 46, 99, 111, 109>>
\* "dl.dropboxusercontent.com"
DlDropbox == <<100, 108, 46, 100, 114, 111, 112, 98, 111, 120, 117, 115, 101, 114, 99, 111, 110, 116, 101, 110, 116, 46, 99, 111, 109>>
\* "?dl=0"
DlZero == <<63, 100, 108, 61, 48>>
\* "temporary-link-for-"
TemporaryLinkFor == <<116, 101, 109, 112, 111, 114, 97, 114, 121, 45, 108, 105, 110, 107, 45, 102, 111, 114, 45>>
\* "https://www.dropbox.com/s/"
ShareBase == <<104, 116, 116, 112, 115, 58, 47, 47, 119, 119, 119, 46, 100, 114, 111, 112, 98, 111, 120, 46, 99, 111, 109, 47, 115, 47>>

\* ------------------------------------------------------- string functions
\* String.prototype.endsWith
EndsWith(s, suf) ==
    /\ Len(s) >= Len(suf)
    /\ SubSeq(s, Len(s) - Len(suf) + 1, Len(s)) = suf

\* positions at which pat occurs in s
Occurrences(s, pat) ==
    {k \in 1..(Len(s) - Len(pat) + 1) : SubSeq(s, k, k + Len(pat) - 1) = pat}

\* String.prototype.replace with a string pattern: only the first
\* occurrence is replaced, the string is returned unchanged when there is none
Replace(s, pat, rep) ==
    IF Occurrences(s, pat) = {} THEN s
    ELSE LET k == CHOOSE x \in Occurrences(s, pat) :
                      \A y \in Occurrences(s, pat) : x <= y
         IN SubSeq(s, 1, k - 1) \o rep \o SubSeq(s, k + Len(pat), Len(s))

\* variant: the preview marker is left in place
DirectLinkKeepsMarker(url) == Replace(url, WwwDropbox, DlDropbox)

\* .replace("www.dropbox.com", "dl.dropboxusercontent.com").replace("?dl=0", "")
DirectLinkOf(url) == Replace(Replace(url, WwwDropbox, DlDropbox), DlZero, <<>>)

\* `temporary-link-for-${file.name}`
TemporaryLink(name) == TemporaryLinkFor \o name

\* the base64 alphabet A-Z a-z 0-9 + /
B64Char(n) ==
    IF n < 26 THEN 65 + n
    ELSE IF n < 52 THEN 97 + (n - 26)
    ELSE IF n < 62 THEN 48 + (n - 52)
    ELSE IF n = 62 THEN 43
    ELSE 47

\* "="
B64Pad == 61

\* Buffer.from(s).toString("base64") for a string of ASCII characters:
\* three bytes become four sextets, the last group is padded with "="
RECURSIVE Base64(_)
Base64(b) ==
    IF Len(b) = 0 THEN <<>>
    ELSE IF Len(b) = 1 THEN
        << B64Char(b[1] \div 4), B64Char((b[1] % 4) * 16), B64Pad, B64Pad >>
    ELSE IF Len(b) = 2 THEN
        << B64Char(b[1] \div 4),
           B64Char((b[1] % 4) * 16 + (b[2] \div 16)),
           B64Char((b[2] % 16) * 4),
           B64Pad >>
    ELSE
        << B64Char(b[1] \div 4),
           B64Char((b[1] % 4) * 16 + (b[2] \div 16)),
           B64Char((b[2] % 16) * 4 + (b[3] \div 64)),
           B64Char(b[3] % 64) >> \o Base64(SubSeq(b, 4, Len(b)))

\* variant: the suffix is looked for in the lower-cased path
IsTextFileAnyCase(entry) == EndsWith(entry.path_lower, DotTxt)

\* entry.name.endsWith(".txt")
IsTextFile(entry) == EndsWith(entry.name, DotTxt)

\* listResult.result.entries.filter((entry) => entry.name.endsWith(".txt")):
\* Array.prototype.filter keeps the order of the kept elements
RECURSIVE TextFilesOf(_)
TextFilesOf(entries) ==
    IF entries = <<>> THEN <<>>
    ELSE (IF IsTextFile(Head(entries)) THEN <<Head(entries)>> ELSE <<>>)
             \o TextFilesOf(Tail(entries))

\* variant: the id is taken from the file name instead of the path
DocIdOfName(file) == Base64(file.name)

\* the id under which a file is indexed
DocId(file) == Base64(file.path_lower)

\* ------------------------------------------------------ the remote account
\* FileMetadata of the Dropbox account: name keeps its case, path_lower is
\* the lower-cased path
FileA == [name |-> <<97, 46, 116, 120, 116>>,
          path_lower |-> <<47, 97, 46, 116, 120, 116>>,
          server_modified |-> <<49>>, content |-> <<104, 105>>]
FileDA == [name |-> <<97, 46, 116, 120, 116>>,
           path_lower |-> <<47, 100, 47, 97, 46, 116, 120, 116>>,
           server_modified |-> <<50>>, content |-> <<121, 111>>]
FileB == [name |-> <<98, 46, 109, 100>>,
          path_lower |-> <<47, 98, 46, 109, 100>>,
          server_modified |-> <<51>>, content |-> <<109, 100>>]
FileC == [name |-> <<99, 46, 84, 88, 84>>,
          path_lower |-> <<47, 99, 46, 116, 120, 116>>,
          server_modified |-> <<52>>, content |-> <<117, 112>>]
FileE == [name |-> <<101, 46, 116, 120, 116>>,
          path_lower |-> <<47, 101, 46, 116, 120, 116>>,
          server_modified |-> <<53>>, content |-> <<111, 107>>]

Universe == {FileA, FileDA, FileB, FileC, FileE}

Paths == {f.path_lower : f \in Universe}

\* the url of the link sharingCreateSharedLink makes for a path
CreatedUrl(path) == ShareBase \o Tail(path) \o DlZero

\* links that exist on the account before the first run:
\* "https://www.dropbox.com/s/a?dl=0" and ".../s/z?dl=0" for /a.txt
InitialLinks ==
    [p \in Paths |->
        IF p = FileA.path_lower
        THEN << ShareBase \o <<97>> \o DlZero, ShareBase \o <<122>> \o DlZero >>
        ELSE << >>]

\* the accounts considered: the filter's example (a.txt, b.md, c.TXT), three
\* text files two of which share a name, a listing that is not in
\* alphabetical order, an empty account, and one of four files
Accounts ==
    { << >>,
      << FileA, FileB, FileC >>,
      << FileA, FileDA, FileE >>,
      << FileE, FileA >>,
      << FileC, FileDA, FileB, FileA >> }

\* lifetimes (seconds) the provider grants to an access token
ExpiresIn == {1, 2}

\* --------------------------------------------------------------- the state
VARIABLES
    credsPresent,   \* DROPBOX_APP_KEY, _APP_SECRET, _REFRESH_TOKEN are all set
    remote,         \* the files of the account, in the provider's listing order
    sharedLinks,    \* path -> the shared links that exist for it
    now,            \* Date.now(), counted from the start of the process
    run,            \* number of the process start (1 = first)
    pc,             \* position of the app.listen callback
    caller,         \* who awaits getDropboxClient
    dropboxTokens,  \* the module-level token cache
    indexExists,    \* the index dropbox_files exists in Elasticsearch
    esDocs,         \* the documents of the index
    listResult,     \* the response of filesListFolder
    textFiles,      \* the filtered entries
    i,              \* position of the for-of loop in textFiles (1-based)
    directLink,     \* local of the loop body
    content,        \* local of the loop body
    outcome,        \* per entry of textFiles: what the loop logged for it
    error,          \* what the app.listen callback caught before process.exit
    calls,          \* calls of getDropboxClient in this process
    exchanges,      \* refresh exchanges sent in this process
    callExchanges,  \* refresh exchanges sent by the current call
    callResult,     \* what the current call of getDropboxClient gave its caller
    staleTokens,    \* access tokens that were cached, expired, when a refresh failed
    refreshing,     \* refresh exchanges in flight
    syncInFlight,   \* invocations of indexDropboxFiles in flight
    warned,         \* entries for which the temporary-link warning was logged
    schemaEnsured,  \* initializeIndex has returned normally in this process
    esMappings,     \* the mappings of the index dropbox_files
    esVisible,      \* the documents of the index that a search sees
    createCalls,    \* indices.create requests sent by this process
    outstanding,    \* remote calls of the app.listen callback in flight
    attempts,       \* per entry of textFiles: the remote calls made for it
    requests        \* the GET /api/search requests received, in arrival order

vars == << credsPresent, remote, sharedLinks, now, run, pc, caller,
           dropboxTokens, indexExists, esDocs, listResult, textFiles, i,
           directLink, content, outcome, error, calls, exchanges,
           callExchanges, callResult, staleTokens, refreshing, syncInFlight,
           warned, schemaEnsured, esMappings, esVisible, createCalls,
           outstanding, attempts, requests >>

envVars == << credsPresent, remote >>
esVars == << indexExists, esDocs, esMappings, esVisible >>
loopVars == << listResult, textFiles, directLink, content >>
tokenVars == << dropboxTokens, calls, exchanges, callExchanges, callResult,
                staleTokens, refreshing, caller >>

NoResult == [kind |-> "none"]

Init ==
    /\ credsPresent \in BOOLEAN
    /\ remote \in { l \in Accounts : Len(l) <= MaxFiles }
    /\ sharedLinks = InitialLinks
    /\ now = 0
    /\ run = 1
    /\ pc = "boot"
    /\ caller = "none"
    /\ dropboxTokens = NULL
    /\ indexExists = FALSE
    /\ esDocs = {}
    /\ listResult = NULL
    /\ textFiles = << >>
    /\ i = 1
    /\ directLink = << >>
    /\ content = << >>
    /\ outcome = << >>
    /\ error = "none"
    /\ calls = 0
    /\ exchanges = 0
    /\ callExchanges = 0
    /\ callResult = NoResult
    /\ staleTokens = {}
    /\ refreshing = 0
    /\ syncInFlight = 0
    /\ warned = {}
    /\ schemaEnsured = FALSE
    /\ esMappings = NULL
    /\ esVisible = {}
    /\ createCalls = 0
    /\ outstanding = 0
    /\ attempts = << >>
    /\ requests = << >>

\* ------------------------------------------------------- bookkeeping
\* positions at which the callback awaits the answer of a remote call
AwaitStates == {"refreshing", "schema_exists", "schema_create", "listing",
                "list_links", "create_link", "download", "index"}

\* the remote calls of the loop body
EntryCalls == {"list_links", "create_link", "download", "index"}

NoAttempts == [c \in EntryCalls |-> 0]

\* a call is in flight from the step that sends it to the step that
\* receives its answer
CountOutstanding ==
    outstanding' = outstanding - (IF pc \in AwaitStates THEN 1 ELSE 0)
                               + (IF pc' \in AwaitStates THEN 1 ELSE 0)

\* a call of the loop body is counted for its entry when it is sent
CountAttempts ==
    attempts' = IF pc' # pc /\ pc' \in EntryCalls
                THEN [attempts EXCEPT ![i'][pc'] = @ + 1]
                ELSE attempts

CountCalls == CountOutstanding /\ CountAttempts

\* ------------------------------------------------------- getDropboxClient
\* variant: the cache is never used
AlwaysRefresh(tokens, t) == TRUE

\* variant: the expiry boundary itself still counts as valid
NeedsRefreshLate(tokens, t) == tokens = NULL \/ t > tokens.expires_at

\* the condition of line 32
NeedsRefresh(tokens, t) == tokens = NULL \/ t >= tokens.expires_at

\* variant: the startup sequence goes on to the listing without
\* initializeIndex
ContinueSkipsSchema(c) ==
    /\ pc' = (IF c = "file" THEN "list_links" ELSE "listing")
    /\ UNCHANGED << error, i, outcome >>

\* the caller resumes after `await getDropboxClient()`
Continue(c) ==
    /\ pc' = (IF c = "startup" THEN "schema_exists"
              ELSE IF c = "sync" THEN "listing"
              ELSE "list_links")
    /\ UNCHANGED << error, i, outcome >>

\* the catch of the app.listen callback: console.error, process.exit(1)
Abort(e) ==
    /\ pc' = "exited"
    /\ error' = e
    /\ UNCHANGED << i, outcome >>

\* variant: break instead of continue
SkipEntryBreaks(e) ==
    /\ pc' = "done"
    /\ outcome' = [outcome EXCEPT ![i] = e]
    /\ UNCHANGED << error, i >>

\* the catch of the loop body: console.error, continue
SkipEntry(e) ==
    /\ pc' = "loop"
    /\ i' = i + 1
    /\ outcome' = [outcome EXCEPT ![i] = e]
    /\ UNCHANGED error

\* variant: the loop body does not catch
RaiseAborts(c, e) == Abort(e)

\* an error thrown by getDropboxClient reaches the catch of its caller
Raise(c, e) == IF c = "file" THEN SkipEntry(e) ELSE Abort(e)

\* the value `new Dropbox({accessToken})` is built from
ClientOf(tokens, t) ==
    [kind |-> "client", access_token |-> tokens.access_token,
     at |-> t, expires_at |-> tokens.expires_at]

\* getDropboxClient up to its first await (or its return)
GetDropboxClient(c) ==
    /\ calls' = calls + 1
    /\ caller' = c
    /\ UNCHANGED << dropboxTokens, staleTokens >>
    /\ IF ~credsPresent
       THEN /\ callResult' = [kind |-> "error", error |-> "AuthConfigError"]
            /\ callExchanges' = 0
            /\ UNCHANGED << exchanges, refreshing >>
            /\ Raise(c, "AuthConfigError")
       ELSE IF NeedsRefresh(dropboxTokens, now)
       THEN /\ callResult' = NoResult
            /\ callExchanges' = 1
            /\ exchanges' = exchanges + 1
            /\ refreshing' = refreshing + 1
            /\ pc' = "refreshing"
            /\ UNCHANGED << error, i, outcome >>
       ELSE /\ callResult' = ClientOf(dropboxTokens, now)
            /\ callExchanges' = 0
            /\ UNCHANGED << exchanges, refreshing >>
            /\ Continue(c)

\* the token endpoint answered 2xx: lines 56-65, then line 72
RefreshOk(expires_in) ==
    /\ pc = "refreshing"
    /\ dropboxTokens' = [access_token |-> exchanges,
                         refresh_token |-> "env",
                         expires_at |-> now + expires_in * MsPerSecond]
    /\ callResult' = ClientOf(dropboxTokens', now)
    /\ refreshing' = refreshing - 1
    /\ Continue(caller)
    /\ UNCHANGED << calls, exchanges, callExchanges, staleTokens, caller >>
    /\ UNCHANGED << envVars, createCalls, requests, warned, schemaEnsured, esVars, loopVars, sharedLinks, now, run,
                    syncInFlight >>
    /\ CountCalls

\* variant: the catch swallows the error and line 72 hands out the cached token
RefreshFailKeepsToken ==
    /\ pc = "refreshing"
    /\ staleTokens' = IF dropboxTokens = NULL THEN staleTokens
                      ELSE staleTokens \cup {dropboxTokens.access_token}
    /\ refreshing' = refreshing - 1
    /\ IF dropboxTokens = NULL
       THEN /\ callResult' = [kind |-> "error", error |-> "AuthRefreshError"]
            /\ Raise(caller, "AuthRefreshError")
            /\ syncInFlight' = IF caller = "file" THEN syncInFlight ELSE 0
       ELSE /\ callResult' = ClientOf(dropboxTokens, now)
            /\ Continue(caller)
            /\ UNCHANGED syncInFlight
    /\ UNCHANGED << dropboxTokens, calls, exchanges, callExchanges, caller >>
    /\ UNCHANGED << envVars, createCalls, requests, warned, schemaEnsured, esVars,
                    loopVars, sharedLinks, now, run >>
    /\ CountCalls

\* fetch rejected or the answer was not ok: lines 50-54 and 66-69
RefreshFail ==
    /\ pc = "refreshing"
    /\ callResult' = [kind |-> "error", error |-> "AuthRefreshError"]
    /\ staleTokens' = IF dropboxTokens = NULL THEN staleTokens
                      ELSE staleTokens \cup {dropboxTokens.access_token}
    /\ refreshing' = refreshing - 1
    /\ Raise(caller, "AuthRefreshError")
    /\ syncInFlight' = IF caller = "file" THEN syncInFlight ELSE 0
    /\ UNCHANGED << dropboxTokens, calls, exchanges, callExchanges, caller >>
    /\ UNCHANGED << envVars, createCalls, requests, warned, schemaEnsured, esVars, loopVars, sharedLinks, now, run >>
    /\ CountCalls

\* ------------------------------------------------------- app.listen callback
\* variant: the startup sequence can be entered again while it is running
ListenAgain ==
    /\ pc \notin {"done", "exited"}
    /\ GetDropboxClient("startup")
    /\ UNCHANGED << envVars, createCalls, requests, warned, schemaEnsured, esVars,
                    loopVars, sharedLinks, now, run, syncInFlight >>
    /\ CountCalls

\* the server listens and the callback runs up to its first await (line 274)
Listen ==
    /\ pc = "boot"
    /\ GetDropboxClient("startup")
    /\ UNCHANGED << envVars, createCalls, requests, warned, schemaEnsured, esVars, loopVars, sharedLinks, now, run,
                    syncInFlight >>
    /\ CountCalls

\* ---------------------------------------------------------- initializeIndex
\* the call of indexDropboxFiles (line 276) up to its first await
EnterSync ==
    /\ GetDropboxClient("sync")
    /\ syncInFlight' = IF pc' = "exited" THEN 0 ELSE syncInFlight + 1

\* the mappings of lines 111-119
ExplicitMappings ==
    [filename |-> [type |-> "keyword"],
     content |-> [type |-> "text", analyzer |-> "standard"],
     path |-> [type |-> "keyword"],
     lastModified |-> [type |-> "date"],
     url |-> [type |-> "keyword"]]

\* variant: the create request is issued whatever exists answered
ExistsOkAlwaysCreates ==
    /\ pc = "schema_exists"
    /\ pc' = "schema_create"
    /\ createCalls' = createCalls + 1
    /\ UNCHANGED << tokenVars, error, i, outcome, syncInFlight,
                    schemaEnsured >>
    /\ UNCHANGED << envVars, requests, warned, esVars, loopVars, sharedLinks,
                    now, run >>
    /\ CountCalls

\* esClient.indices.exists answered (line 105)
ExistsOk ==
    /\ pc = "schema_exists"
    /\ IF indexExists
       THEN /\ schemaEnsured' = TRUE
            /\ EnterSync
            /\ UNCHANGED createCalls
       ELSE /\ pc' = "schema_create"
            /\ createCalls' = createCalls + 1
            /\ UNCHANGED << tokenVars, error, i, outcome, syncInFlight,
                            schemaEnsured >>
    /\ UNCHANGED << envVars, requests, warned, esVars, loopVars, sharedLinks,
                    now, run >>
    /\ CountCalls

\* esClient.indices.create answered (lines 108-121)
CreateOk ==
    /\ pc = "schema_create"
    /\ indexExists' = TRUE
    /\ esMappings' = ExplicitMappings
    /\ schemaEnsured' = TRUE
    /\ EnterSync
    /\ UNCHANGED << envVars, createCalls, requests, warned, esDocs, esVisible, loopVars, sharedLinks,
                    now, run >>
    /\ CountCalls

\* exists or create threw: lines 123-126, then the catch of line 278
SchemaFail ==
    /\ pc \in {"schema_exists", "schema_create"}
    /\ Abort("SchemaError")
    /\ UNCHANGED << envVars, createCalls, requests, warned, schemaEnsured, esVars, loopVars, tokenVars, sharedLinks, now,
                    run, syncInFlight >>
    /\ CountCalls

\* ------------------------------------------------------- indexDropboxFiles
\* filesListFolder answered with the first n entries of the account
\* (has_more tells that the listing goes on); lines 134-143
ListOk(n) ==
    /\ pc = "listing"
    /\ listResult' = [entries |-> SubSeq(remote, 1, n),
                      has_more |-> n < Len(remote)]
    /\ textFiles' = TextFilesOf(listResult'.entries)
    /\ i' = 1
    /\ outcome' = [k \in 1..Len(textFiles') |-> "pending"]
    /\ pc' = "loop"
    /\ UNCHANGED << envVars, createCalls, requests, warned, schemaEnsured, esVars, tokenVars, sharedLinks, now, run,
                    directLink, content, error, syncInFlight >>
    /\ CountOutstanding
    /\ attempts' = [k \in 1..Len(textFiles') |-> NoAttempts]

\* filesListFolder threw: lines 209-212, then the catch of line 278
ListFail ==
    /\ pc = "listing"
    /\ Abort("EnumerationError")
    /\ syncInFlight' = 0
    /\ UNCHANGED << envVars, createCalls, requests, warned, schemaEnsured, esVars, loopVars, tokenVars, sharedLinks, now,
                    run >>
    /\ CountCalls

\* the head of the for-of loop (line 145) and line 147; directLink and
\* content are locals of the loop body, fresh in every iteration
NextEntry ==
    /\ pc = "loop"
    /\ IF i > Len(textFiles)
       THEN /\ pc' = "done"
            /\ syncInFlight' = syncInFlight - 1
            /\ UNCHANGED << tokenVars, error, i, outcome >>
       ELSE /\ GetDropboxClient("file")
            /\ UNCHANGED syncInFlight
    /\ directLink' = << >>
    /\ content' = << >>
    /\ UNCHANGED << envVars, createCalls, requests, warned, schemaEnsured, esVars,
                    listResult, textFiles, sharedLinks, now, run >>
    /\ CountCalls

\* sharingListSharedLinks answered (lines 151-163)
ListLinksOk ==
    /\ pc = "list_links"
    /\ LET links == sharedLinks[textFiles[i].path_lower] IN
       IF Len(links) > 0
       THEN /\ directLink' = DirectLinkOf(links[1])
            /\ pc' = "download"
       ELSE /\ pc' = "create_link"
            /\ UNCHANGED directLink
    /\ UNCHANGED << envVars, createCalls, requests, warned, schemaEnsured, esVars, tokenVars, sharedLinks, now, run,
                    listResult, textFiles, content, i, outcome, error,
                    syncInFlight >>
    /\ CountCalls

\* sharingCreateSharedLink answered (lines 164-172)
CreateLinkOk ==
    /\ pc = "create_link"
    /\ LET path == textFiles[i].path_lower IN
       /\ sharedLinks' = [sharedLinks EXCEPT
                             ![path] = Append(@, CreatedUrl(path))]
       /\ directLink' = DirectLinkOf(CreatedUrl(path))
    /\ pc' = "download"
    /\ UNCHANGED << envVars, createCalls, requests, warned, schemaEnsured, esVars, tokenVars, now, run, listResult,
                    textFiles, content, i, outcome, error, syncInFlight >>
    /\ CountCalls

\* variant: a sharing failure reaches the catch of the loop body
SharingFailSkips ==
    /\ pc \in {"list_links", "create_link"}
    /\ warned' = warned \cup {i}
    /\ SkipEntry("LinkError")
    /\ UNCHANGED << envVars, createCalls, requests, schemaEnsured, esVars, tokenVars,
                    loopVars, sharedLinks, now, run, syncInFlight >>
    /\ CountCalls

\* sharingListSharedLinks or sharingCreateSharedLink threw (lines 174-179)
SharingFail ==
    /\ pc \in {"list_links", "create_link"}
    /\ directLink' = TemporaryLink(textFiles[i].name)
    /\ warned' = warned \cup {i}
    /\ pc' = "download"
    /\ UNCHANGED << envVars, createCalls, requests, schemaEnsured, esVars, tokenVars, sharedLinks, now, run,
                    listResult, textFiles, content, i, outcome, error,
                    syncInFlight >>
    /\ CountCalls

\* variant: the index write is started and not awaited
DownloadOkNoAwait ==
    /\ pc = "download"
    /\ content' = textFiles[i].content
    /\ pc' = "loop"
    /\ i' = i + 1
    /\ outcome' = [outcome EXCEPT ![i] = "indexed"]
    /\ attempts' = [attempts EXCEPT ![i]["index"] = @ + 1]
    /\ UNCHANGED << envVars, createCalls, requests, warned, schemaEnsured,
                    esVars, tokenVars, sharedLinks, now, run, listResult,
                    textFiles, directLink, error, syncInFlight, outstanding >>

\* filesDownload answered (lines 181-186)
DownloadOk ==
    /\ pc = "download"
    /\ content' = textFiles[i].content
    /\ pc' = "index"
    /\ UNCHANGED << envVars, createCalls, requests, warned, schemaEnsured, esVars, tokenVars, sharedLinks, now, run,
                    listResult, textFiles, directLink, i, outcome, error,
                    syncInFlight >>
    /\ CountCalls

\* variant: a failed download is asked for again
DownloadFailRetries ==
    /\ pc = "download"
    /\ pc' = "download"
    /\ attempts' = [attempts EXCEPT ![i]["download"] = @ + 1]
    /\ UNCHANGED << envVars, createCalls, requests, warned, schemaEnsured,
                    esVars, tokenVars, loopVars, sharedLinks, now, run,
                    syncInFlight, i, outcome, error, outstanding >>

\* filesDownload threw, or the payload could not be decoded
DownloadFail ==
    /\ pc = "download"
    /\ SkipEntry("FetchError")
    /\ UNCHANGED << envVars, createCalls, requests, warned, schemaEnsured, esVars, tokenVars, loopVars, sharedLinks, now,
                    run, syncInFlight >>
    /\ CountCalls

\* the document esClient.index writes (lines 188-201)
DocOf(file, text, url) ==
    [id |-> DocId(file),
     version |-> 0,
     filename |-> file.name,
     content |-> text,
     path |-> file.path_lower,
     lastModified |-> file.server_modified,
     url |-> url]

\* index with an id: creates the document or overwrites the one with that id
\* and counts its _version up
VersionOf(docs, id) ==
    IF \E d \in docs : d.id = id
    THEN (CHOOSE d \in docs : d.id = id).version
    ELSE 0

Upsert(docs, doc) ==
    {d \in docs : d.id # doc.id}
        \cup {[doc EXCEPT !.version = VersionOf(docs, doc.id) + 1]}

\* variant: the write is not followed by a refresh
IndexOkNoRefresh ==
    /\ pc = "index"
    /\ esDocs' = Upsert(esDocs, DocOf(textFiles[i], content, directLink))
    /\ pc' = "loop"
    /\ i' = i + 1
    /\ outcome' = [outcome EXCEPT ![i] = "indexed"]
    /\ UNCHANGED << envVars, createCalls, requests, warned, schemaEnsured,
                    indexExists, esMappings, esVisible, tokenVars, loopVars,
                    sharedLinks, now, run, error, syncInFlight >>
    /\ CountCalls

\* esClient.index answered, line 203; with refresh: true the answer comes
\* after the write has been made visible to searches
IndexOk ==
    /\ pc = "index"
    /\ esDocs' = Upsert(esDocs, DocOf(textFiles[i], content, directLink))
    /\ esVisible' = esDocs'
    /\ pc' = "loop"
    /\ i' = i + 1
    /\ outcome' = [outcome EXCEPT ![i] = "indexed"]
    /\ UNCHANGED << envVars, createCalls, requests, warned, schemaEnsured, indexExists, esMappings, tokenVars, loopVars, sharedLinks,
                    now, run, error, syncInFlight >>
    /\ CountCalls

\* esClient.index threw
IndexFail ==
    /\ pc = "index"
    /\ SkipEntry("IndexError")
    /\ UNCHANGED << envVars, createCalls, requests, warned, schemaEnsured, esVars, tokenVars, loopVars, sharedLinks, now,
                    run, syncInFlight >>
    /\ CountCalls

\* ------------------------------------------------------------ environment
\* time passes while a remote call is awaited
Tick ==
    /\ pc \in AwaitStates
    /\ now < MaxTicks * TickMs
    /\ now' = now + TickMs
    /\ UNCHANGED << envVars, createCalls, requests, warned, schemaEnsured, esVars, tokenVars, loopVars, sharedLinks, run,
                    pc, i, outcome, error, syncInFlight >>
    /\ UNCHANGED << outstanding, attempts >>

\* the server process is started again: module state is fresh, the account
\* and the Elasticsearch index are what the earlier process left
Restart ==
    /\ pc \in {"done", "exited"}
    /\ run < MaxRuns
    /\ run' = run + 1
    /\ pc' = "boot"
    /\ caller' = "none"
    /\ dropboxTokens' = NULL
    /\ listResult' = NULL
    /\ textFiles' = << >>
    /\ i' = 1
    /\ directLink' = << >>
    /\ content' = << >>
    /\ outcome' = << >>
    /\ error' = "none"
    /\ calls' = 0
    /\ exchanges' = 0
    /\ callExchanges' = 0
    /\ callResult' = NoResult
    /\ staleTokens' = {}
    /\ refreshing' = 0
    /\ syncInFlight' = 0
    /\ now' = 0
    /\ warned' = {}
    /\ schemaEnsured' = FALSE
    /\ createCalls' = 0
    /\ outstanding' = 0
    /\ attempts' = << >>
    /\ requests' = << >>
    /\ UNCHANGED << envVars, esVars, sharedLinks >>

\* ------------------------------------------------------ GET /api/search
\* the values of req.query.q: absent, empty, "hi", "a.txt"
QueryTerms == { NULL, << >>, <<104, 105>>, <<97, 46, 116, 120, 116>> }

\* variant: only an absent q is refused
IsMissingStrict(q) == q = NULL

\* !searchTerm
IsMissing(q) == q = NULL \/ q = << >>

syncVars == << sharedLinks, now, run, pc, esVars, loopVars, tokenVars, i,
               outcome, error, syncInFlight, warned, schemaEnsured,
               createCalls, outstanding, attempts >>

\* "<em>" and "</em>"
EmOpen == <<60, 101, 109, 62>>
EmClose == <<60, 47, 101, 109, 62>>

\* the multi_match query over content (analyzed text) and filename (keyword):
\* the term is a token of the content or it is the whole filename; the
\* contents of the account are single words
EsMatches(doc, q) == doc.content = q \/ doc.filename = q

\* the _source of a hit: the body the document was indexed with
SourceOf(doc) ==
    [filename |-> doc.filename, content |-> doc.content, path |-> doc.path,
     lastModified |-> doc.lastModified, url |-> doc.url]

\* a hit of the search response; highlight is there when the content
\* matched; _score is << n >> for the number n and << >> for null
HitOf(doc, q, score) ==
    [_id |-> doc.id,
     _source |-> SourceOf(doc),
     _score |-> score,
     highlight |-> IF doc.content = q
                   THEN [content |-> << EmOpen \o q \o EmClose >>]
                   ELSE NULL]

\* the enumerations of a finite set
SeqsOf(S) ==
    { f \in [1..Cardinality(S) -> S] :
        \A a, b \in 1..Cardinality(S) : a # b => f[a] # f[b] }

\* what esClient.search can answer for q: the visible documents that match,
\* in the order the engine ranks them, scored in descending order or, when
\* the engine gives no scores, with _score null
EsResponses(q) ==
    { [k \in 1..Len(order) |->
          HitOf(order[k], q,
                IF scored THEN << Len(order) - k + 1 >> ELSE << >>)] :
        order \in SeqsOf({d \in esVisible : EsMatches(d, q)}),
        scored \in BOOLEAN }

\* what esClient.search can throw
ErrorDetails == {"index_not_found_exception", "ConnectionError"}

\* lines 252-260: one element of the response per hit
MapHit(hit) ==
    [filename |-> IF hit._source = NULL THEN << >> ELSE hit._source.filename,
     url |-> IF hit._source = NULL THEN << >> ELSE hit._source.url,
     lastModified |-> IF hit._source = NULL THEN << >>
                      ELSE hit._source.lastModified,
     score |-> IF hit._score = << >> THEN 0 ELSE hit._score[1],
     excerpt |-> IF hit.highlight # NULL THEN hit.highlight.content[1]
                 ELSE NULL]

\* variant: the results are put in the opposite order
SearchResultsReversed(hits) ==
    [k \in 1..Len(hits) |-> MapHit(hits[Len(hits) - k + 1])]

\* result.hits.hits.map(...)
SearchResults(hits) == [k \in 1..Len(hits) |-> MapHit(hits[k])]

\* variant: the return after the 400 answer is missing
SearchArriveNoReturn(q) ==
    /\ pc \notin {"boot", "exited"}
    /\ Len(requests) < MaxRequests
    /\ requests' = Append(requests,
          [q |-> q, state |-> "searching",
           status |-> IF IsMissing(q) THEN 400 ELSE 0,
           body |-> IF IsMissing(q)
                    THEN [error |-> "Search term is required"] ELSE NULL,
           queries |-> 1,
           responses |-> IF IsMissing(q) THEN 1 ELSE 0,
           hits |-> NULL, logged |-> "none"])
    /\ UNCHANGED << envVars, syncVars >>

\* a request arrives while the server listens: lines 218-250 up to the await
SearchArrive(q) ==
    /\ pc \notin {"boot", "exited"}
    /\ Len(requests) < MaxRequests
    /\ requests' = Append(requests,
          IF IsMissing(q)
          THEN [q |-> q, state |-> "responded", status |-> 400,
                body |-> [error |-> "Search term is required"],
                queries |-> 0, responses |-> 1,
                hits |-> NULL, logged |-> "none"]
          ELSE [q |-> q, state |-> "searching",
                status |-> 0, body |-> NULL, queries |-> 1, responses |-> 0,
                hits |-> NULL, logged |-> "none"])
    /\ UNCHANGED << envVars, syncVars >>

\* esClient.search answered: lines 252-262
SearchOk(r, hits) ==
    /\ pc # "exited"
    /\ requests[r].state = "searching"
    /\ indexExists
    /\ requests' = [requests EXCEPT ![r] =
          [@ EXCEPT !.state = "responded", !.status = 200,
                    !.body = SearchResults(hits), !.hits = hits,
                    !.responses = @ + 1]]
    /\ UNCHANGED << envVars, syncVars >>

\* variant: the answer carries the message of the error
SearchFailLeaks(r, detail) ==
    /\ pc # "exited"
    /\ requests[r].state = "searching"
    /\ detail = "index_not_found_exception" => ~indexExists
    /\ requests' = [requests EXCEPT ![r] =
          [@ EXCEPT !.state = "responded", !.status = 500,
                    !.body = [error |-> detail], !.logged = detail,
                    !.responses = @ + 1]]
    /\ UNCHANGED << envVars, syncVars >>

\* esClient.search threw: lines 263-266
SearchFail(r, detail) ==
    /\ pc # "exited"
    /\ requests[r].state = "searching"
    /\ detail = "index_not_found_exception" => ~indexExists
    /\ requests' = [requests EXCEPT ![r] =
          [@ EXCEPT !.state = "responded", !.status = 500,
                    !.body = [error |-> "Search failed"], !.logged = detail,
                    !.responses = @ + 1]]
    /\ UNCHANGED << envVars, syncVars >>

\* ----------------------------------------------------------- specifications
\* the steps of the app.listen callback
SyncSteps ==
    \/ Listen
    \/ \E e \in ExpiresIn : RefreshOk(e)
    \/ RefreshFail
    \/ ExistsOk
    \/ CreateOk
    \/ SchemaFail
    \/ \E n \in 0..Len(remote) : ListOk(n)
    \/ ListFail
    \/ NextEntry
    \/ ListLinksOk
    \/ CreateLinkOk
    \/ SharingFail
    \/ DownloadOk
    \/ DownloadFail
    \/ IndexOk
    \/ IndexFail

\* one server process: the startup sequence and the sync run
Next ==
    \/ SyncSteps
    \/ Tick

Spec == Init /\ [][Next]_vars

\* successive starts of the server over the same account and index; every
\* process runs within the lifetime of its first token
RerunNext ==
    \/ SyncSteps
    \/ Restart

RerunSpec == Init /\ [][RerunNext]_vars

SearchNext ==
    \/ \E q \in QueryTerms : SearchArrive(q)
    \/ \E r \in 1..Len(requests) :
          \E hits \in EsResponses(requests[r].q) : SearchOk(r, hits)
    \/ \E r \in 1..Len(requests) :
          \E detail \in ErrorDetails : SearchFail(r, detail)

\* one server process, interleaved with search requests
ServerNext ==
    \/ SyncSteps
    \/ Tick
    \/ SearchNext

\* accounts of up to two files
ServerInit == Init /\ Len(remote) <= 2

ServerSpec == ServerInit /\ [][ServerNext]_vars

\* one server process within the lifetime of its first token, interleaved
\* with search requests
SearchSpecNext ==
    \/ SyncSteps
    \/ SearchNext

SearchSpec == Init /\ [][SearchSpecNext]_vars

TypeOK ==
    /\ pc \in {"boot", "refreshing", "schema_exists", "schema_create",
               "listing", "loop", "list_links", "create_link", "download",
               "index", "done", "exited"}
    /\ i \in 1..(Len(textFiles) + 1)
    /\ Len(outcome) = Len(textFiles)

\* ------------------------------------------------------------ properties
\* the run is inside the for-of loop
InLoop ==
    \/ pc \in {"loop", "list_links", "create_link", "download", "index"}
    \/ pc = "refreshing" /\ caller = "file"

\* what the catch of the loop body can have logged for an entry
EntryErrors == {"AuthConfigError", "AuthRefreshError", "FetchError",
                "IndexError", "LinkError"}

\* the index holds the document of a file
Indexed(file) ==
    \E d \in esDocs : /\ d.path = file.path_lower
                      /\ d.filename = file.name
                      /\ d.content = file.content

\* C1: partial failure isolation. When the run ends, every entry of the
\* listing has been handled, every entry whose own processing did not fail
\* is in the index, and once the loop is entered the run never ends in the
\* catch of the startup sequence.
PartialFailureIsolation ==
    /\ [](pc = "done" =>
            \A k \in 1..Len(textFiles) :
                /\ outcome[k] # "pending"
                /\ outcome[k] \notin EntryErrors => Indexed(textFiles[k]))
    /\ [][InLoop => pc' # "exited"]_vars

\* C1 witness: entry 2 of 3 failed at the fetch step, entries 1 and 3 are
\* in the index when the run has ended
SecondOfThreeFailed ==
    /\ pc = "done"
    /\ outcome = << "indexed", "FetchError", "indexed" >>
    /\ Indexed(textFiles[1])
    /\ Indexed(textFiles[3])
    /\ ~Indexed(textFiles[2])

\* "L2EudHh0", the base64 of "/a.txt"
IdOfFileA == <<76, 50, 69, 117, 100, 72, 104, 48>>
\* "L2QvYS50eHQ=", the base64 of "/d/a.txt"
IdOfFileDA == <<76, 50, 81, 118, 89, 83, 53, 48, 101, 72, 81, 61>>

\* C2: idempotent upsert. Every document's id is the base64 of its path,
\* there is one document per path, distinct paths have distinct ids, and a
\* step never removes a document, never changes the id of a path's document
\* and never touches the document of a path other than the one it indexes.
IdempotentUpsert ==
    /\ \A f, g \in Universe :
          f.path_lower # g.path_lower => DocId(f) # DocId(g)
    /\ DocId(FileA) = IdOfFileA
    /\ DocId(FileDA) = IdOfFileDA
    /\ [](/\ \A d \in esDocs : d.id = Base64(d.path)
          /\ \A d, e \in esDocs : d.path = e.path => d = e)
    /\ [][\A d \in esDocs :
            /\ \E e \in esDocs' : e.path = d.path /\ e.id = d.id
            /\ (pc = "index" /\ d.path # textFiles[i].path_lower)
                  => d \in esDocs']_vars

\* C2 witness: a second run over the same three text files has overwritten
\* a document of the first run, and the index still holds three documents
SecondRunOverwrote ==
    /\ run = 2
    /\ pc = "done"
    /\ Len(textFiles) = 3
    /\ Cardinality(esDocs) = 3
    /\ \A d \in esDocs : d.version = 2

\* C3: token caching. A call made while the cached token is valid sends no
\* exchange and returns the cached token; a call made when now >= expires_at
\* sends exactly one; no call sends more than one; a finished exchange
\* replaces the cache by a token with a later expires_at.
TokenCaching ==
    /\ [](callExchanges <= 1)
    /\ [][(calls' = calls + 1 /\ dropboxTokens = NULL /\ credsPresent) =>
            /\ exchanges' = exchanges + 1
            /\ callExchanges' = 1]_vars
    /\ [][(calls' = calls + 1 /\ dropboxTokens # NULL) =>
            IF now < dropboxTokens.expires_at
            THEN /\ exchanges' = exchanges
                 /\ dropboxTokens' = dropboxTokens
                 /\ callResult'.kind = "client"
                 /\ callResult'.access_token = dropboxTokens.access_token
            ELSE /\ exchanges' = exchanges + 1
                 /\ callExchanges' = 1]_vars
    /\ [][(dropboxTokens # NULL /\ dropboxTokens' # NULL
                /\ dropboxTokens' # dropboxTokens) =>
            /\ dropboxTokens'.expires_at > dropboxTokens.expires_at
            /\ dropboxTokens'.access_token # dropboxTokens.access_token
            /\ exchanges' = exchanges
            /\ callExchanges' = 1]_vars

\* C3 witness: three calls or more, one answered from the cache, and the
\* last one, made after expiry, was answered by the second exchange
CachedThenRefreshed ==
    /\ calls >= 3
    /\ exchanges = 2
    /\ callExchanges = 1
    /\ callResult.kind = "client"
    /\ callResult.access_token = 2

\* C4: a token handed to a caller is unexpired at the moment it is returned
ReturnedTokenUnexpired ==
    callResult.kind = "client" =>
        /\ callResult.at < callResult.expires_at
        /\ callResult.access_token = dropboxTokens.access_token
        /\ callResult.expires_at = dropboxTokens.expires_at

\* C4 witness: the cached token had expired and the call returned the token
\* of the refresh that it made
ReturnedAfterExpiry ==
    /\ callResult.kind = "client"
    /\ exchanges >= 2
    /\ callExchanges = 1
    /\ callResult.at > 0

\* C5: a failed refresh is raised to the caller of that call, which sent one
\* exchange and no more, and a token that was cached, expired, when a refresh
\* failed is never handed out
FailedRefreshRaises ==
    /\ [](/\ (callResult.kind = "error"
                /\ callResult.error = "AuthRefreshError") =>
                /\ callExchanges = 1
                /\ \/ pc = "exited" /\ error = "AuthRefreshError"
                   \/ /\ caller = "file"
                      /\ pc \in {"loop", "done"}
                      /\ outcome[i - 1] = "AuthRefreshError"
          /\ callResult.kind = "client" =>
                callResult.access_token \notin staleTokens)
    /\ [][(pc = "refreshing" /\ callResult'.kind = "error") =>
            /\ exchanges' = exchanges
            /\ pc' # "refreshing"
            /\ refreshing' = 0]_vars

\* C5 witness: the refresh of an expired cached token has just failed
ExpiredTokenRefreshFailed ==
    /\ callResult.kind = "error"
    /\ callResult.error = "AuthRefreshError"
    /\ dropboxTokens # NULL
    /\ dropboxTokens.access_token \in staleTokens

\* C6: degraded link. After a sharing failure the entry goes on to the
\* download with the placeholder as its link, is indexed with the
\* placeholder as url unless the download or the index write fails, and the
\* loop goes on with the remaining entries.
DegradedLink ==
    /\ [](\A k \in warned :
            /\ (k = i /\ pc \in {"download", "index"}) =>
                    directLink = TemporaryLink(textFiles[k].name)
            /\ outcome[k] \in {"pending", "indexed", "FetchError", "IndexError"}
            /\ outcome[k] = "indexed" =>
                    \E d \in esDocs :
                        /\ d.path = textFiles[k].path_lower
                        /\ d.url = TemporaryLinkFor \o textFiles[k].name
            /\ pc = "done" => \A j \in 1..Len(textFiles) : outcome[j] # "pending")
    /\ [][warned' # warned /\ warned' # {} =>
            /\ pc' = "download"
            /\ i' = i
            /\ esDocs' = esDocs]_vars

\* C6 witness: the run has ended, an entry whose sharing calls failed is
\* indexed with the placeholder and the entry after it is indexed too
DegradedEntryIndexed ==
    /\ pc = "done"
    /\ \E k \in warned :
          /\ k < Len(textFiles)
          /\ outcome[k] = "indexed"
          /\ outcome[k + 1] = "indexed"
          /\ \E d \in esDocs : /\ d.path = textFiles[k].path_lower
                               /\ d.url = TemporaryLinkFor \o textFiles[k].name

\* C7 as stated: the run is aborted only because schema creation or
\* enumeration failed
AbortOnlySchemaOrEnumeration ==
    pc = "exited" => error \in {"SchemaError", "EnumerationError"}

\* C7 amended: the run is aborted only because getDropboxClient threw at
\* startup or ahead of the listing (credentials missing, refresh failed), or
\* schema creation or enumeration failed; it is never aborted once the
\* listing has been received, a failure in the loop is logged for its entry
AbortCauses ==
    /\ pc = "exited" =>
          /\ error \in {"AuthConfigError", "AuthRefreshError", "SchemaError",
                        "EnumerationError"}
          /\ listResult = NULL
          /\ textFiles = << >>
    /\ error # "none" => pc = "exited"
    /\ (\E k \in 1..Len(outcome) : outcome[k] \in EntryErrors) =>
          /\ pc # "exited"
          /\ listResult # NULL

\* C7 witness: the refresh made by indexDropboxFiles ahead of the listing
\* failed and the process exited
AbortedByRefreshBeforeListing ==
    /\ pc = "exited"
    /\ error = "AuthRefreshError"
    /\ caller = "sync"
    /\ schemaEnsured

\* C8 as stated: a run that got past the enumeration works on all the text
\* files of the account
NoPartialEnumeration ==
    listResult # NULL => textFiles = TextFilesOf(remote)

\* C9: sync ordering. The listing is requested only after initializeIndex
\* has returned, entries are processed only after the listing has arrived,
\* an entry's link is resolved before its download and its content is
\* downloaded before its index write, the index changes only by the index
\* write of the current entry, and an aborted run has indexed nothing.
SyncOrdering ==
    /\ [](/\ (\/ pc \in {"listing", "done"}
              \/ InLoop
              \/ pc = "refreshing" /\ caller = "sync") =>
                    schemaEnsured /\ indexExists
          /\ (InLoop \/ pc = "done") => listResult # NULL
          /\ pc \in {"list_links", "create_link"} =>
                    directLink = << >> /\ content = << >>
          /\ pc = "download" => directLink # << >> /\ content = << >>
          /\ pc = "index" =>
                    directLink # << >> /\ content = textFiles[i].content
          /\ pc = "exited" =>
                    \A k \in 1..Len(outcome) : outcome[k] # "indexed")
    /\ [][esDocs' # esDocs =>
            /\ pc = "index"
            /\ schemaEnsured
            /\ listResult # NULL
            /\ \E d \in esDocs' :
                  /\ d.path = textFiles[i].path_lower
                  /\ d.url = directLink
                  /\ d.content = content
                  /\ esDocs' \ {d} \subseteq esDocs]_vars

\* C9 witness: the first entry has been indexed and the loop is about to
\* take the second one
FirstEntryIndexed ==
    /\ pc = "loop"
    /\ i = 2
    /\ Len(textFiles) >= 2
    /\ outcome[1] = "indexed"
    /\ Cardinality(esDocs) = 1

\* C10: at most one refresh exchange and at most one invocation of
\* indexDropboxFiles are in flight, whatever search requests arrive
SingleFlight ==
    /\ refreshing <= 1
    /\ syncInFlight <= 1
    /\ refreshing = 1 <=> pc = "refreshing"
    /\ (InLoop \/ pc = "listing") => syncInFlight = 1

\* C10 witness: a refresh made by the loop is in flight while a search
\* request awaits the index
RefreshDuringSearch ==
    /\ refreshing = 1
    /\ syncInFlight = 1
    /\ caller = "file"
    /\ \E r \in 1..Len(requests) : requests[r].state = "searching"

\* C11: search validation. A request whose q is absent or empty is answered
\* with 400 and {"error": "Search term is required"}, and no query is sent
\* to the index for it.
SearchValidation ==
    \A r \in 1..Len(requests) :
        (requests[r].q = NULL \/ requests[r].q = << >>) =>
            /\ requests[r].state = "responded"
            /\ requests[r].status = 400
            /\ requests[r].body = [error |-> "Search term is required"]
            /\ requests[r].queries = 0

\* C11 witness: a request with an empty q has been answered
EmptyTermRefused ==
    \E r \in 1..Len(requests) :
        /\ requests[r].q = << >>
        /\ requests[r].status = 400

\* C12: a failed index query is answered with 500 and the fixed body
\* {error: "Search failed"}, whatever the error was, after a single query
SearchFailureAnswer ==
    \A r \in 1..Len(requests) :
        requests[r].logged # "none" =>
            /\ requests[r].q # NULL /\ requests[r].q # << >>
            /\ requests[r].state = "responded"
            /\ requests[r].status = 500
            /\ requests[r].body = [error |-> "Search failed"]
            /\ requests[r].queries = 1
            /\ requests[r].responses = 1

\* C12 witness: the query of a request failed for want of the index
SearchFailedNoIndex ==
    \E r \in 1..Len(requests) :
        /\ requests[r].logged = "index_not_found_exception"
        /\ requests[r].status = 500

\* C13: read-after-write. When the loop has logged an entry as indexed its
\* document is visible to searches, and a search answered after the run
\* has ended returns the document of every indexed entry that matches.
ReadAfterWrite ==
    /\ [](\A k \in 1..Len(outcome) :
            outcome[k] = "indexed" =>
                \E d \in esVisible :
                    /\ d.path = textFiles[k].path_lower
                    /\ d.content = textFiles[k].content
                    /\ d.filename = textFiles[k].name)
    /\ [][\A r \in 1..Len(requests) :
            (/\ pc = "done"
             /\ requests[r].state = "searching"
             /\ requests'[r].status = 200) =>
                \A k \in 1..Len(outcome) :
                    (/\ outcome[k] = "indexed"
                     /\ \/ textFiles[k].content = requests[r].q
                        \/ textFiles[k].name = requests[r].q) =>
                        \E h \in 1..Len(requests'[r].hits) :
                            /\ requests'[r].hits[h]._source.path
                                  = textFiles[k].path_lower
                            /\ requests'[r].hits[h]._source.content
                                  = textFiles[k].content]_vars

\* C13 witness: after a run that indexed /a.txt and /d/a.txt a search for
\* "a.txt" has returned both
SearchAfterSyncSeesBoth ==
    /\ pc = "done"
    /\ \A k \in 1..Len(outcome) : outcome[k] = "indexed"
    /\ \E r \in 1..Len(requests) :
          /\ requests[r].status = 200
          /\ requests[r].q = FileA.name
          /\ Len(requests[r].hits) = 2

\* C14: initializeIndex is idempotent. While the index exists a step of
\* initializeIndex issues no create request and leaves the index, its
\* mappings and its documents as they are; while it is absent one create
\* request is issued, and its answer leaves the index present with the
\* mappings of the request and the documents untouched. No process issues
\* more than one create request.
EnsureSchemaIdempotent ==
    /\ [](createCalls <= 1)
    /\ [](pc = "schema_create" => createCalls = 1 /\ ~indexExists)
    /\ [][(pc = "schema_exists" /\ indexExists) =>
            /\ createCalls' = createCalls
            /\ pc' # "schema_create"
            /\ indexExists'
            /\ esMappings' = esMappings
            /\ esDocs' = esDocs
            /\ esVisible' = esVisible]_vars
    /\ [][(pc = "schema_exists" /\ ~indexExists /\ pc' # "exited") =>
            /\ createCalls' = createCalls + 1
            /\ pc' = "schema_create"
            /\ ~indexExists']_vars
    /\ [][(pc = "schema_create" /\ pc' # "exited") =>
            /\ createCalls' = createCalls
            /\ indexExists'
            /\ esMappings'.content = [type |-> "text", analyzer |-> "standard"]
            /\ esMappings'.filename = [type |-> "keyword"]
            /\ esDocs' = esDocs
            /\ esVisible' = esVisible]_vars

\* C14 witness: a second process found the index of the first, with its
\* documents, and went on without a create request
SecondStartupFoundIndex ==
    /\ run = 2
    /\ schemaEnsured
    /\ createCalls = 0
    /\ indexExists
    /\ esDocs # {}

\* the last four characters of a name are ".txt"
HasTxtSuffix(name) ==
    /\ Len(name) >= 4
    /\ SubSeq(name, Len(name) - 3, Len(name)) = << 46, 116, 120, 116 >>

\* C15: the enumeration filter. The kept entries are exactly the listed
\* entries whose name ends in ".txt", case-sensitively, in the order of the
\* listing (of a.txt, b.md, c.TXT only a.txt), and an entry is started only
\* when every kept entry before it is finished.
EnumerationFilter ==
    /\ [](listResult # NULL =>
            LET entries == listResult.entries
                kept == { j \in 1..Len(entries) : HasTxtSuffix(entries[j].name) }
            IN  /\ Len(textFiles) = Cardinality(kept)
                /\ \A k \in 1..Len(textFiles) : HasTxtSuffix(textFiles[k].name)
                /\ \A j1, j2 \in kept :
                      j1 < j2 =>
                          \E k1, k2 \in 1..Len(textFiles) :
                              /\ k1 < k2
                              /\ textFiles[k1] = entries[j1]
                              /\ textFiles[k2] = entries[j2]
                /\ \A j \in kept :
                      \E k \in 1..Len(textFiles) : textFiles[k] = entries[j]
                /\ entries = << FileA, FileB, FileC >> =>
                      textFiles = << FileA >>)
    /\ [](\A k \in 1..Len(outcome) :
            outcome[k] # "pending" =>
                \A j \in 1..(k - 1) : outcome[j] # "pending")
    /\ [](\A k \in 1..Len(attempts) :
            attempts[k] # NoAttempts =>
                \A j \in 1..(k - 1) : outcome[j] # "pending")

\* C15 witness: the run over the listing a.txt, b.md, c.TXT has ended
\* having indexed a.txt only
OnlyLowerCaseSuffixKept ==
    /\ pc = "done"
    /\ listResult # NULL
    /\ listResult.entries = << FileA, FileB, FileC >>
    /\ outcome = << "indexed" >>
    /\ \E d \in esDocs : d.path = FileA.path_lower
    /\ ~ \E d \in esDocs : d.path = FileC.path_lower

\* "https://www.dropbox.com/s/abc?dl=0"
ExampleLink ==
    << 104, 116, 116, 112, 115, 58, 47, 47, 119, 119, 119, 46,
       100, 114, 111, 112, 98, 111, 120, 46, 99, 111, 109, 47,
       115, 47, 97, 98, 99, 63, 100, 108, 61, 48 >>

\* "https://dl.dropboxusercontent.com/s/abc"
ExampleDirectLink ==
    << 104, 116, 116, 112, 115, 58, 47, 47, 100, 108, 46, 100,
       114, 111, 112, 98, 111, 120, 117, 115, 101, 114, 99, 111,
       110, 116, 101, 110, 116, 46, 99, 111, 109, 47, 115, 47,
       97, 98, 99 >>

\* a link "https://www.dropbox.com<rest>?dl=0" with the domain rewritten and
\* the marker dropped: "https://dl.dropboxusercontent.com<rest>"
Normalized(link) ==
    SubSeq(ExampleDirectLink, 1, 33) \o SubSeq(link, 24, Len(link) - 5)

\* C16: link normalization. The example link becomes the example direct
\* link; the answer of the link listing gives the first listed link,
\* normalized; the answer of the link creation, which is asked for only when
\* no link is listed, gives the created link, normalized; and the url stored
\* with an indexed entry whose link was resolved is the normalized first
\* link of its path.
LinkNormalization ==
    /\ DirectLinkOf(ExampleLink) = ExampleDirectLink
    /\ [][(pc = "list_links" /\ pc' = "download" /\ i \notin warned') =>
            /\ Len(sharedLinks[textFiles[i].path_lower]) > 0
            /\ directLink'
                 = Normalized(sharedLinks[textFiles[i].path_lower][1])]_vars
    /\ [][(pc = "create_link" /\ pc' = "download" /\ i \notin warned') =>
            LET path == textFiles[i].path_lower IN
            /\ Len(sharedLinks[path]) = 0
            /\ Len(sharedLinks'[path]) = 1
            /\ directLink' = Normalized(sharedLinks'[path][1])]_vars
    /\ [](\A k \in 1..Len(outcome) :
            (outcome[k] = "indexed" /\ k \notin warned) =>
                LET path == textFiles[k].path_lower IN
                /\ Len(sharedLinks[path]) > 0
                /\ \E d \in esDocs :
                      /\ d.path = path
                      /\ d.url = Normalized(sharedLinks[path][1]))

\* C16 witness: a run has indexed /a.txt, which had two links, under the
\* first of them and /d/a.txt, which had none, under a created one
ExistingAndCreatedLinkStored ==
    /\ pc = "done"
    /\ warned = {}
    /\ \E ka, kd \in 1..Len(outcome) :
          /\ textFiles[ka] = FileA /\ outcome[ka] = "indexed"
          /\ textFiles[kd] = FileDA /\ outcome[kd] = "indexed"
    /\ Len(sharedLinks[FileA.path_lower]) = 2
    /\ Len(sharedLinks[FileDA.path_lower]) = 1
    /\ \E d \in esDocs :
          /\ d.path = FileA.path_lower
          /\ d.url = SubSeq(ExampleDirectLink, 1, 36) \o << 97 >>
    /\ \E d \in esDocs :
          /\ d.path = FileDA.path_lower
          /\ d.url = SubSeq(ExampleDirectLink, 1, 36)
                        \o Tail(FileDA.path_lower)

\* C17: entries are processed one at a time. At most one remote call of
\* the run is outstanding, none while the loop is between two entries or
\* has ended; an entry has a call made for it only when every entry before
\* it is finished; and the loop moves to the next entry only with the
\* current one finished and nothing outstanding.
OneAtATime ==
    /\ [](outstanding <= 1)
    /\ [](pc \in {"boot", "loop", "done", "exited"} => outstanding = 0)
    /\ [](\A k \in 1..Len(attempts) :
            attempts[k] # NoAttempts =>
                /\ k <= i
                /\ \A j \in 1..(k - 1) : outcome[j] # "pending")
    /\ [][i' > i =>
            /\ i' = i + 1
            /\ outcome'[i] # "pending"
            /\ outstanding' = 0]_vars

\* C17 witness: the download of the second entry is the one outstanding
\* call, the first entry having been indexed
SecondEntryAloneInFlight ==
    /\ pc = "download"
    /\ i = 2
    /\ outstanding = 1
    /\ outcome[1] = "indexed"
    /\ outcome[2] = "pending"

\* C18: no retry within a run. For every enumerated entry the link
\* listing, the link creation, the download and the index write are each
\* asked for at most once; the loop never goes back to an earlier entry;
\* and once an entry is indexed or skipped neither its outcome nor the calls
\* made for it change.
NoRetry ==
    /\ [](\A k \in 1..Len(attempts) :
            \A c \in EntryCalls : attempts[k][c] <= 1)
    /\ [][i' >= i]_vars
    /\ [][\A k \in 1..Len(outcome) :
            outcome[k] # "pending" =>
                /\ Len(outcome') = Len(outcome)
                /\ outcome'[k] = outcome[k]
                /\ attempts'[k] = attempts[k]]_vars

\* C18 witness: the run has ended with the first entry skipped after its
\* one download and the second indexed
SkippedOnceThenWentOn ==
    /\ pc = "done"
    /\ Len(outcome) >= 2
    /\ outcome[1] = "FetchError"
    /\ attempts[1]["download"] = 1
    /\ attempts[1]["index"] = 0
    /\ outcome[2] = "indexed"

ExactlyOneResponse ==
    /\ [](\A r \in 1..Len(requests) :
            /\ requests[r].responses <= 1
            /\ requests[r].state \in {"searching", "responded"}
            /\ requests[r].state = "responded" =>
                  /\ requests[r].responses = 1
                  /\ requests[r].status \in {200, 400, 500}
                  /\ requests[r].status = 200 =>
                        /\ requests[r].logged = "none"
                        /\ DOMAIN requests[r].body
                              = 1..Len(requests[r].hits)
                  /\ requests[r].status = 400 <=>
                        (requests[r].q = NULL \/ requests[r].q = << >>)
                  /\ requests[r].status = 500 <=> requests[r].logged # "none"
            /\ requests[r].state = "searching" =>
                  /\ requests[r].responses = 0
                  /\ requests[r].status = 0
                  /\ requests[r].queries = 1)
    /\ [][\A r \in 1..Len(requests) :
            /\ requests[r].state = "responded" =>
                  /\ requests'[r].state = "responded"
                  /\ requests'[r].status = requests[r].status
                  /\ requests'[r].responses = requests[r].responses
                  /\ requests'[r].queries = requests[r].queries
                  /\ requests'[r].logged = requests[r].logged
            /\ (requests[r].state = "searching"
                  /\ requests'[r].state # "searching")
                  => /\ requests'[r].state = "responded"
                     /\ requests'[r].responses = 1
                     /\ requests'[r].status \in {200, 500}]_vars

\* C20 witness: while the sync run was waiting for a download a request
\* was answered 200, once
AnsweredDuringSync ==
    /\ pc = "download"
    /\ \E r \in 1..Len(requests) :
          /\ requests[r].state = "responded"
          /\ requests[r].status = 200
          /\ requests[r].responses = 1

====
